---- MODULE Spec2Model ----
\* Model of src/app.py: SupremeCourtDownloader (fetch -> jobs -> downloads with
\* retry/backoff -> metadata file).  One thread of control; `pc` is its position.
\* Text is modelled as sequences of one-character strings; the tokens "path",
\* "fileName" and "type" stand for those literal words of the URL template.
EXTENDS Integers, Sequences, FiniteSets, TLC

VARIABLES
    pc,          \* position of the single thread inside run()
    cases,       \* run(): the list returned by fetch_verdicts
    jobs,        \* run(): the list returned by create_download_jobs
    index,       \* run(): loop variable of enumerate(jobs, start=1); 0 before the loop
    attempt,     \* download_file: loop variable of range(1, 6); 0 outside the loop
    ext,         \* download_file: the inferred extension of the current job
    sent,        \* requests the adapter has put on the wire for the current/last session call
    metadata,    \* self.metadata
    metaFile,    \* METADATA_PATH on disk
    files,       \* DOCUMENTS_DIR: local file name -> content
    errors,      \* ERROR-level log records
    fetchResult, \* how fetch_verdicts returned
    postCalls,   \* number of session.post calls made
    called,      \* sequence of index arguments of the download_file calls
    getCalls,    \* per index: number of session.get calls made
    outcomes,    \* per index: outcome of each finished attempt
    sleeps,      \* per index: arguments of the time.sleep calls
    names,       \* per index: the local_filename download_file derived
    writes       \* number of times run() opened METADATA_PATH for writing

vars == <<pc, cases, jobs, index, attempt, ext, sent, metadata, metaFile, files,
          errors, fetchResult, postCalls, called, getCalls,
          outcomes, sleeps, names, writes>>

\* ---------------------------------------------------------------- bounds
MaxRecords == 2

\* ------------------------------------------------------ program constants
RetryTotal == 5      \* Retry(total=5)
RangeStop == 6       \* range(1, 6)

\* ------------------------------------------------------------------ text
None == [k |-> "none", s |-> <<>>]
Str(s) == [k |-> "str", s |-> s]
IntVal == [k |-> "int", s |-> <<"7">>]

\* Python truthiness of a value returned by dict.get
Truthy(v) == (v.k = "str" /\ v.s # <<>>) \/ v.k = "int"

\* str(v) as an f-string renders it
Format(v) == IF v.k = "none" THEN <<"N", "o", "n", "e">> ELSE v.s

IndexOf(s, c) ==
    IF \E i \in 1..Len(s) : s[i] = c
    THEN CHOOSE i \in 1..Len(s) : s[i] = c /\ \A j \in 1..(i - 1) : s[j] # c
    ELSE 0

LastIndexOf(s, c) ==
    IF \E i \in 1..Len(s) : s[i] = c
    THEN CHOOSE i \in 1..Len(s) : s[i] = c /\ \A j \in (i + 1)..Len(s) : s[j] # c
    ELSE 0

RECURSIVE Split(_, _)
Split(s, c) ==
    LET i == IndexOf(s, c)
    IN IF i = 0 THEN <<s>>
       ELSE <<SubSeq(s, 1, i - 1)>> \o Split(SubSeq(s, i + 1, Len(s)), c)

LowerChar(c) ==
    CASE c = "P" -> "p"
      [] c = "D" -> "d"
      [] c = "F" -> "f"
      [] c = "O" -> "o"
      [] c = "C" -> "c"
      [] OTHER -> c

Lower(s) == [i \in 1..Len(s) |-> LowerChar(s[i])]

\* ------------------------------------------------------- sample records
\* A verdict record as response.json() delivers it: the three fields the
\* program reads to decide what to do (the others are only copied).
Rec(p, f, d) == [PathForWeb |-> p, FileName |-> f, DocName |-> d]

SamplePath == Str(<<"a", "/", "b">>)
SampleFile == Str(<<"r", ".", "P", "D", "F">>)

Records == {
    Rec(SamplePath, SampleFile, None),
    Rec(None, SampleFile, None),
    Rec(SamplePath, Str(<<>>), Str(<<"v">>)),
    Rec(SamplePath, SampleFile, IntVal),
    Rec(SamplePath, Str(<<"#", "x">>), None),
    Rec(SamplePath, SampleFile, Str(<<"V", ".", "D", "O", "C", ".">>))
}

RecordLists == UNION {[1..n -> Records] : n \in 0..MaxRecords}

\* ------------------------------------------------- create_download_jobs
BuildUrl(path, file_name) ==
    <<"BASE", "?", "path", "=">> \o Format(path)
        \o <<"&", "fileName", "=">> \o Format(file_name)
        \o <<"&", "type", "=", "2">>

SkipCaseMut(case) == ~Truthy(case.PathForWeb) /\ ~Truthy(case.FileName)
SkipCase(case) == ~Truthy(case.PathForWeb) \/ ~Truthy(case.FileName)

RECURSIVE JobsLoop(_, _)
JobsLoop(rest, acc) ==
    IF rest = <<>> THEN acc
    ELSE LET case == Head(rest)
         IN IF SkipCase(case)
            THEN JobsLoop(Tail(rest), acc)
            ELSE JobsLoop(Tail(rest),
                          Append(acc, [url |-> BuildUrl(case.PathForWeb, case.FileName),
                                       case |-> case]))

create_download_jobs(cs) == JobsLoop(cs, <<>>)

\* ------------------------------------------- urlparse / parse_qs / names
\* urlparse(url).query: the text between the first "?" and the first "#"
UrlQuery(url) ==
    LET h == IndexOf(url, "#")
        noFrag == IF h = 0 THEN url ELSE SubSeq(url, 1, h - 1)
        q == IndexOf(noFrag, "?")
    IN IF q = 0 THEN <<>> ELSE SubSeq(noFrag, q + 1, Len(noFrag))

\* parse_qs(query)[name]: the values of the name=value pieces, blank values
\* and pieces without "=" dropped; <<>> when the key is absent (KeyError)
QsValues(query, name) ==
    LET pieces == Split(query, "&")
        Key(p) == SubSeq(p, 1, IndexOf(p, "=") - 1)
        Val(p) == SubSeq(p, IndexOf(p, "=") + 1, Len(p))
        Keep(p) == IndexOf(p, "=") > 0 /\ Key(p) = <<name>> /\ Val(p) # <<>>
        kept == SelectSeq(pieces, Keep)
    IN [i \in 1..Len(kept) |-> Val(kept[i])]

infer_extension(filename) ==
    LET d == LastIndexOf(filename, ".")
    IN IF d > 0 THEN Lower(SubSeq(filename, d + 1, Len(filename)))
       ELSE <<"p", "d", "f">>

\* The statements of download_file before its loop: [raised, extension]
Prelude(job) ==
    LET doc == job.case.DocName
        vals == QsValues(UrlQuery(job.url), "fileName")
    IN IF Truthy(doc)
       THEN IF doc.k = "str"
            THEN [raised |-> FALSE, extension |-> infer_extension(doc.s)]
            ELSE [raised |-> TRUE, extension |-> <<>>]       \* TypeError
       ELSE IF vals = <<>>
            THEN [raised |-> TRUE, extension |-> <<>>]       \* KeyError
            ELSE [raised |-> FALSE, extension |-> infer_extension(vals[1])]

Digit(n) == CASE n = 0 -> "0" [] n = 1 -> "1" [] n = 2 -> "2" [] n = 3 -> "3"
              [] n = 4 -> "4" [] n = 5 -> "5" [] n = 6 -> "6" [] n = 7 -> "7"
              [] n = 8 -> "8" [] n = 9 -> "9"

RECURSIVE Decimal(_)
Decimal(n) == IF n < 10 THEN <<Digit(n)>> ELSE Append(Decimal(n \div 10), Digit(n % 10))

\* f"{index:03d}"
Pad3(n) ==
    LET d == Decimal(n)
    IN IF Len(d) >= 3 THEN d ELSE [i \in 1..(3 - Len(d)) |-> "0"] \o d

LocalFilenameNoIndex(i, extension) == <<"case_", ".">> \o extension
LocalFilename(i, extension) == <<"case_">> \o Pad3(i) \o <<".">> \o extension

\* ------------------------------------------------------ retry decisions
\* The adapter re-sends a request that failed retriably (a status of the
\* status_forcelist or a connection failure, GET and POST both allowed)
\* while retries are left; n = requests of this call already sent before it.
CanRetryMut(n) == FALSE
CanRetry(n) == n < RetryTotal

\* for attempt in range(1, 6): is there an iteration after `a`
MoreAttemptsMut(a) == a + 1 < RangeStop + 1
MoreAttempts(a) == a + 1 < RangeStop

\* time.sleep(2 ** attempt)
BackoffMut(a) == 2 ^ (a - 1)
Backoff(a) == 2 ^ a

\* run(): `if not cases`
NoCasesMut(cs) == FALSE
NoCases(cs) == cs = <<>>

\* ------------------------------------------------------------------ state
NoFiles == [n \in {} |-> <<>>]
SetFile(f, n, c) == [m \in DOMAIN f \cup {n} |-> IF m = n THEN c ELSE f[m]]

\* the document the download endpoint holds under a URL: the body of its
\* 2xx responses to session.get(url)
DocumentAt(url) ==
    IF url = BuildUrl(SamplePath, SampleFile)
    THEN <<"P", "D", "F", "D", "A", "T", "A">>
    ELSE <<"o", "k">>

\* the bytes of a body that reached the file when the stream broke
Partial(body) == SubSeq(body, 1, Len(body) \div 2)

\* open(local_path, "wb") and the writes: the file's bytes afterwards
WriteBytesAppend(f, n, bytes) == (IF n \in DOMAIN f THEN f[n] ELSE <<>>) \o bytes
WriteBytes(f, n, bytes) == bytes

Init ==
    /\ pc = "start"
    /\ cases = <<>>
    /\ jobs = <<>>
    /\ index = 0
    /\ attempt = 0
    /\ ext = <<>>
    /\ sent = 0
    /\ metadata = <<>>
    /\ metaFile = [kind |-> "prior", entries |-> <<>>]
    /\ files = NoFiles
    /\ errors = {}
    /\ fetchResult = "none"
    /\ postCalls = 0
    /\ called = <<>>
    /\ getCalls = [i \in 1..MaxRecords |-> 0]
    /\ outcomes = [i \in 1..MaxRecords |-> <<>>]
    /\ sleeps = [i \in 1..MaxRecords |-> <<>>]
    /\ names = [i \in 1..MaxRecords |-> <<>>]
    /\ writes = 0

runVars == <<cases, jobs, index, writes>>
dlVars == <<attempt, ext, metadata, files, called, getCalls, outcomes, sleeps, names>>

\* ---------------------------------------------------------- fetch_verdicts
\* run() calls fetch_verdicts, which calls session.post once
FetchCall ==
    /\ pc = "start"
    /\ pc' = "post"
    /\ postCalls' = postCalls + 1
    /\ sent' = 0
    /\ UNCHANGED <<runVars, dlVars, metaFile, errors, fetchResult>>

\* a 2xx response whose JSON body carries `recs` under "data" (or no "data")
PostOk ==
    /\ pc = "post"
    /\ \E recs \in RecordLists : cases' = recs
    /\ sent' = sent + 1
    /\ fetchResult' = "returned"
    /\ pc' = "fetched"
    /\ UNCHANGED <<jobs, index, writes, dlVars, metaFile, errors, postCalls>>

\* a retriable failure while retries are left: the adapter sends it again
PostResend ==
    /\ pc = "post"
    /\ CanRetry(sent)
    /\ sent' = sent + 1
    /\ UNCHANGED <<pc, runVars, dlVars, metaFile, errors, fetchResult, postCalls>>

FetchFailed(how) ==
    /\ sent' = sent + 1
    /\ cases' = <<>>
    /\ errors' = errors \cup {[msg |-> "fetch_failed", index |-> 0]}
    /\ fetchResult' = how
    /\ pc' = "fetched"
    /\ UNCHANGED <<jobs, index, writes, dlVars, metaFile, postCalls>>

\* a retriable failure with no retry left: session.post raises
PostExhausted ==
    /\ pc = "post"
    /\ ~CanRetry(sent)
    /\ FetchFailed("exhausted")

\* a failure the adapter does not retry (other non-2xx status, malformed
\* JSON, "data" of the wrong type): raise_for_status / json / len raises
PostFatal ==
    /\ pc = "post"
    /\ FetchFailed("fatal")

\* -------------------------------------------------------------------- run
RunNoCases ==
    /\ pc = "fetched"
    /\ NoCases(cases)
    /\ errors' = errors \cup {[msg |-> "no_verdicts", index |-> 0]}
    /\ pc' = "done"
    /\ UNCHANGED <<runVars, dlVars, sent, metaFile, fetchResult, postCalls>>

RunBuildJobs ==
    /\ pc = "fetched"
    /\ ~NoCases(cases)
    /\ jobs' = create_download_jobs(cases)
    /\ pc' = "loop"
    /\ UNCHANGED <<cases, index, writes, dlVars, sent, metaFile, errors, fetchResult, postCalls>>

\* enumerate(jobs, start=1): the index that goes with the pos-th job
EnumIndexMut(pos) == pos - 1
EnumIndex(pos) == pos

\* the for loop has consumed all of its `total` jobs after taking n
LoopOverBreak(n, total) == n = total \/ n >= 1
LoopOver(n, total) == n = total

\* the job the loop is at / has last taken from the list
Job == jobs[Len(called)]

\* the loop calls download_file(job, index, len(jobs)); its first statements
\* succeed and the first attempt starts
DownloadFileEnter ==
    /\ pc = "loop"
    /\ ~LoopOver(Len(called), Len(jobs))
    /\ LET i == EnumIndex(Len(called) + 1)
           pre == Prelude(jobs[Len(called) + 1])
       IN /\ ~pre.raised
          /\ index' = i
          /\ called' = Append(called, i)
          /\ ext' = pre.extension
          /\ names' = [names EXCEPT ![i] = LocalFilename(i, pre.extension)]
          /\ getCalls' = [getCalls EXCEPT ![i] = 1]
    /\ attempt' = 1
    /\ sent' = 0
    /\ pc' = "get"
    /\ UNCHANGED <<cases, jobs, writes, metadata, files, outcomes, sleeps,
                   metaFile, errors, fetchResult, postCalls>>

\* ... or raise (KeyError / TypeError), which nothing in run() catches
DownloadFileRaise ==
    /\ pc = "loop"
    /\ ~LoopOver(Len(called), Len(jobs))
    /\ Prelude(jobs[Len(called) + 1]).raised
    /\ index' = EnumIndex(Len(called) + 1)
    /\ called' = Append(called, EnumIndex(Len(called) + 1))
    /\ pc' = "raised"
    /\ UNCHANGED <<cases, jobs, writes, attempt, ext, sent, metadata, files, getCalls,
                   outcomes, sleeps, names, metaFile, errors, fetchResult, postCalls>>

LoopEnd ==
    /\ pc = "loop"
    /\ LoopOver(Len(called), Len(jobs))
    /\ pc' = "write"
    /\ UNCHANGED <<runVars, dlVars, sent, metaFile, errors, fetchResult, postCalls>>

\* ---------------------------------------------------------- download_file
LocalName == names[index]

Entry(i, job, name, size) ==
    [index |-> i, file_name |-> name, file_size_bytes |-> size,
     download_url |-> job.url, case |-> job.case]

\* self.metadata after a successful attempt of job i
RecordSuccessMut(md, i, job, name, size) == <<Entry(i, job, name, size)>> \o md
RecordSuccessTwice(md, i, job, name, size) ==
    Append(Append(md, Entry(i, job, name, size)), Entry(i, job, name, size))
RecordSuccess(md, i, job, name, size) == Append(md, Entry(i, job, name, size))

\* self.metadata after a failed attempt of job i
RecordFailureMut(md, i, job, name) == Append(md, Entry(i, job, name, 0))
RecordFailure(md, i, job, name) == md

\* the GET answers 2xx and the whole body reaches the file: the entry is
\* appended and download_file returns
\* where download_file leaves the thread after a successful attempt: `return`
AfterSuccessNoReturn == "get"
AfterSuccess == "loop"

GetOk ==
    /\ pc = "get"
    /\ sent' = sent + 1
    /\ files' = SetFile(files, LocalName, WriteBytes(files, LocalName, DocumentAt(Job.url)))
    /\ metadata' = RecordSuccess(metadata, index, Job, LocalName, Len(files'[LocalName]))
    /\ outcomes' = [outcomes EXCEPT ![index] = Append(@, "ok")]
    /\ attempt' = 0
    /\ pc' = AfterSuccess
    /\ UNCHANGED <<runVars, ext, called, getCalls, sleeps, names, metaFile, errors,
                   fetchResult, postCalls>>

\* a retriable failure while retries are left: the adapter sends the GET
\* again inside the same session.get call
GetResend ==
    /\ pc = "get"
    /\ CanRetry(sent)
    /\ sent' = sent + 1
    /\ UNCHANGED <<pc, runVars, attempt, ext, metadata, files, called, getCalls,
                   outcomes, sleeps, names, metaFile, errors, fetchResult, postCalls>>

\* where download_file leaves the thread after the last failed attempt:
\* logger.error and the implicit return, back in run()'s loop
AfterAbandonRaise == "raised"
AfterAbandon == "loop"

\* the except branch: warning, time.sleep(2 ** attempt), then the next
\* iteration of the loop or, after the last one, the error and the return
AttemptFailed(filesAfter) ==
    /\ sent' = 0
    /\ files' = filesAfter
    /\ metadata' = RecordFailure(metadata, index, Job, LocalName)
    /\ outcomes' = [outcomes EXCEPT ![index] = Append(@, "fail")]
    /\ sleeps' = [sleeps EXCEPT ![index] = Append(@, Backoff(attempt))]
    /\ IF MoreAttempts(attempt)
       THEN /\ attempt' = attempt + 1
            /\ getCalls' = [getCalls EXCEPT ![index] = @ + 1]
            /\ pc' = "get"
            /\ UNCHANGED errors
       ELSE /\ attempt' = 0
            /\ errors' = errors \cup {[msg |-> "abandon", index |-> index]}
            /\ pc' = AfterAbandon
            /\ UNCHANGED getCalls
    /\ UNCHANGED <<runVars, ext, called, names, metaFile, fetchResult, postCalls>>

\* a retriable failure with no retry left: session.get raises
GetExhausted ==
    /\ pc = "get"
    /\ ~CanRetry(sent)
    /\ AttemptFailed(files)

\* a failure the adapter does not retry (other non-2xx status, open() fails)
GetFatal ==
    /\ pc = "get"
    /\ AttemptFailed(files)

\* 2xx, the file is opened "wb" (truncated), then the stream or a write fails
GetStreamFail ==
    /\ pc = "get"
    /\ AttemptFailed(SetFile(files, LocalName,
                             WriteBytes(files, LocalName, Partial(DocumentAt(Job.url)))))

\* ---------------------------------------------------------- metadata file
\* METADATA_PATH after open(..., "w") and json.dump(self.metadata, ...)
WrittenFileUnlessEmpty(old, md) ==
    IF md = <<>> THEN old ELSE [kind |-> "written", entries |-> md]
WrittenFile(old, md) == [kind |-> "written", entries |-> md]

WriteMetadata ==
    /\ pc = "write"
    /\ writes' = writes + 1
    /\ metaFile' = WrittenFile(metaFile, metadata)
    /\ pc' = "done"
    /\ UNCHANGED <<cases, jobs, index, dlVars, sent, errors, fetchResult, postCalls>>

\* open(METADATA_PATH, "w") or the dump raises OSError: run() does not catch it
WriteMetadataRaise ==
    /\ pc = "write"
    /\ writes' = writes + 1
    /\ \/ UNCHANGED metaFile
       \/ metaFile' = [kind |-> "truncated", entries |-> <<>>]
    /\ pc' = "raised"
    /\ UNCHANGED <<cases, jobs, index, dlVars, sent, errors, fetchResult, postCalls>>

Next ==
    \/ FetchCall
    \/ PostOk
    \/ PostResend
    \/ PostExhausted
    \/ PostFatal
    \/ RunNoCases
    \/ RunBuildJobs
    \/ DownloadFileEnter
    \/ DownloadFileRaise
    \/ LoopEnd
    \/ GetOk
    \/ GetResend
    \/ GetExhausted
    \/ GetFatal
    \/ GetStreamFail
    \/ WriteMetadata
    \/ WriteMetadataRaise

Spec == Init /\ [][Next]_vars

TypeOK ==
    /\ pc \in {"start", "post", "fetched", "loop", "get", "write", "done", "raised"}
    /\ index \in 0..Len(jobs)
    /\ index = Len(called)
    /\ attempt \in 0..5
    /\ sent \in 0..(RetryTotal + 1)

\* ------------------------------------------------------------ vocabulary
Indices == 1..MaxRecords

\* download_file(job j) has been called and has returned
Returned(j) == Len(outcomes[j]) > 0 /\ ~(index = j /\ pc = "get")

\* one of the attempts of job j succeeded
Succeeded(j) == \E k \in 1..Len(outcomes[j]) : outcomes[j][k] = "ok"

\* job j went through five attempts and every one failed
Exhausted(j) ==
    /\ Len(outcomes[j]) = 5
    /\ \A k \in 1..5 : outcomes[j][k] = "fail"

HasEntry(md, j) == \E k \in 1..Len(md) : md[k].index = j

\* run() got past the early return and built its jobs
JobsBuilt == pc \in {"loop", "get", "write", "raised"} \/ (pc = "done" /\ cases # <<>>)

\* ----------------------------------------------------------------- claims

C2_SpecDelays ==
    \A j \in Indices : \A k \in 1..Len(sleeps[j]) :
        /\ k <= 5
        /\ sleeps[j][k] = <<1, 2, 4, 8, 16>>[k]

\* C2 amended: the delay slept after failed attempt n of a job is 2^n
\* seconds, that is 2, 4, 8, 16, 32 for n = 1..5, strictly increasing.
C2_Delays ==
    \A j \in Indices :
        /\ Len(sleeps[j]) <= 5
        /\ \A k \in 1..Len(sleeps[j]) : sleeps[j][k] = <<2, 4, 8, 16, 32>>[k]
        /\ \A k \in 1..(Len(sleeps[j]) - 1) : sleeps[j][k] < sleeps[j][k + 1]

C2_Witness == \E j \in Indices : Len(sleeps[j]) = 5 /\ sleeps[j][1] = 2

\* C3: a backoff sleep happens only after a failed attempt that is followed
\* by another attempt of the same job: the sleeps of a job are fewer than
\* its attempts, and no more than its failed attempts.
C3_SleepOnlyBetweenAttempts ==
    \A j \in Indices :
        /\ getCalls[j] > 0 => Len(sleeps[j]) <= getCalls[j] - 1
        /\ Len(sleeps[j]) <= Cardinality({k \in 1..Len(outcomes[j]) : outcomes[j][k] = "fail"})

\* C4: once download_file has returned for a job, self.metadata holds an
\* entry with the job's index if and only if one of its attempts succeeded;
\* the entries are never more than the jobs.
C4_EntryIffSuccess ==
    /\ \A j \in Indices : Returned(j) => (HasEntry(metadata, j) <=> Succeeded(j))
    /\ \A j \in Indices : HasEntry(metadata, j) => Succeeded(j)
    /\ Len(metadata) <= Len(jobs)

C4_Witness ==
    /\ pc = "write"
    /\ Len(jobs) = 2
    /\ Exhausted(1) /\ ~HasEntry(metadata, 1)
    /\ Succeeded(2) /\ HasEntry(metadata, 2) /\ Len(outcomes[2]) > 1

\* C5: when all 5 attempts of a job fail, no entry is added for it, an error
\* is logged, and run() goes on: the exhaustion leaves the thread in the
\* loop, the write is reached only after every job has been attempted, and a
\* run that ends normally with jobs has written the metadata file.
C5_ExhaustionDoesNotAbort ==
    /\ \A j \in Indices : Exhausted(j) =>
          /\ ~HasEntry(metadata, j)
          /\ [msg |-> "abandon", index |-> j] \in errors
          /\ (index = j => pc \in {"loop", "write", "done", "raised"})
          /\ (index = j /\ pc \in {"write", "done", "raised"} => j = Len(jobs))
    /\ pc \in {"write", "done"} /\ JobsBuilt =>
          /\ Len(called) = Len(jobs)
          /\ \A j \in 1..Len(jobs) : Len(outcomes[j]) >= 1
    /\ pc = "done" /\ JobsBuilt => metaFile.kind = "written"

C5_Witness ==
    /\ pc = "done"
    /\ metaFile.kind = "written"
    /\ Exhausted(1)
    /\ Len(jobs) = 2 /\ Len(outcomes[2]) >= 1

\* C6: the array written to the metadata file has exactly one entry per job
\* that downloaded successfully, carrying that job's index, in strictly
\* ascending index order.
C6_WrittenArray ==
    metaFile.kind = "written" =>
        LET arr == metaFile.entries
        IN /\ \A j \in Indices : Succeeded(j) <=> HasEntry(arr, j)
           /\ Len(arr) = Cardinality({j \in Indices : Succeeded(j)})
           /\ \A k \in 1..Len(arr) : arr[k].index \in 1..Len(jobs)
           /\ \A k \in 1..(Len(arr) - 1) : arr[k].index < arr[k + 1].index

\* two jobs, the first succeeds, the second exhausts its retries
C6_Witness ==
    /\ metaFile.kind = "written"
    /\ Len(jobs) = 2
    /\ Succeeded(1) /\ Exhausted(2)
    /\ Len(metaFile.entries) = 1
    /\ metaFile.entries[1].index = 1

\* C7: create_download_jobs returns exactly the subsequence of the records
\* whose PathForWeb and FileName are both present and non-empty, in input
\* order: job i is built from the i-th such record.
Present(v) == v.k # "none" /\ v.s # <<>>
ValidAt == {i \in 1..Len(cases) : Present(cases[i].PathForWeb) /\ Present(cases[i].FileName)}
NthValid(n) == CHOOSE i \in ValidAt : Cardinality({h \in ValidAt : h <= i}) = n

C7_JobsAreValidRecords ==
    JobsBuilt =>
        /\ Len(jobs) = Cardinality(ValidAt)
        /\ Len(jobs) <= Len(cases)
        /\ \A n \in 1..Len(jobs) : jobs[n].case = cases[NthValid(n)]

C7_Witness ==
    /\ JobsBuilt
    /\ Len(cases) = 2
    /\ ValidAt = {2}
    /\ Len(jobs) = 1 /\ jobs[1].case = cases[2]

\* C8: the indices run() passes to download_file are 1, 2, ... with no gap
\* and no repeat, and all of 1..N once the loop is over, whatever records
\* create_download_jobs dropped.
C8_DenseIndices ==
    /\ Len(called) <= Len(jobs)
    /\ \A k \in 1..Len(called) : called[k] = k
    /\ pc \in {"write", "done"} => Len(called) = Len(jobs)

\* the first record was dropped: the job of the second record gets index 1
C8_Witness ==
    /\ pc = "write"
    /\ Len(cases) = 2 /\ ValidAt = {2}
    /\ Len(jobs) = 1 /\ called = <<1>>
    /\ Len(outcomes[1]) >= 1

\* C9: when fetch_verdicts yields an empty sequence (empty or absent data,
\* or a failed request), run() builds no jobs, makes no download attempt,
\* leaves the metadata file as it was and returns without raising.
C9_EmptyFetchEndsRun ==
    /\ fetchResult \in {"exhausted", "fatal"} => cases = <<>>
    /\ (pc \notin {"start", "post"} /\ cases = <<>>) =>
          /\ pc \in {"fetched", "done"}
          /\ jobs = <<>>
          /\ called = <<>>
          /\ \A j \in Indices : getCalls[j] = 0
          /\ files = NoFiles
          /\ metaFile.kind = "prior"

C9_Witness ==
    /\ pc = "done"
    /\ fetchResult = "returned" /\ cases = <<>>
    /\ metaFile.kind = "prior"

\* C10 as the spec states it: the search request is sent once and never
\* re-sent, a failed search request making fetch_verdicts return empty.
C10_SearchSentOnce ==
    /\ pc = "post" => sent = 0
    /\ pc = "fetched" => sent = 1

\* C10 amended: fetch_verdicts calls session.post once and has no retry loop
\* of its own, but the session's adapter re-sends the request after a
\* retriable failure, up to 6 sends; fetch_verdicts returns empty on a
\* failure that is not retried or on the 6th retriable failure in a row.
C10_SearchRetriedByAdapter ==
    /\ postCalls <= 1
    /\ pc \in {"post", "fetched"} => sent <= 6
    /\ pc = "fetched" /\ fetchResult = "exhausted" => sent = 6 /\ cases = <<>>
    /\ pc = "fetched" /\ fetchResult = "fatal" => cases = <<>>

\* a transient failure of the search request, then the records
C10_Witness ==
    /\ pc = "fetched"
    /\ fetchResult = "returned"
    /\ sent = 2
    /\ cases # <<>>

\* download_file(job j) returned after a success or after its 5th failure
Finished(j) == Returned(j) /\ (Succeeded(j) \/ Exhausted(j))

\* the local file name download_file derives for job j
NameOf(j) == names[j]

EntriesOf(md, j) == {k \in 1..Len(md) : md[k].index = j}

\* C11 as the spec states it: in every run the flush is invoked exactly once.
C11_FlushOncePerRun == pc = "done" => writes = 1

\* C11 amended: the flush is invoked at most once, only after every job has
\* been attempted and never while a job is pending; exactly once in a run
\* that got past the empty-fetch return and ended, never in a run whose
\* fetch was empty.
C11_FlushOnceAfterAllJobs ==
    /\ writes <= 1
    /\ pc \in {"start", "post", "fetched", "loop", "get", "write"} =>
          writes = 0 /\ metaFile.kind = "prior"
    /\ writes = 1 =>
          /\ Len(called) = Len(jobs)
          /\ \A j \in 1..Len(jobs) : Finished(j)
    /\ pc = "done" /\ cases # <<>> => writes = 1 /\ metaFile.kind = "written"
    /\ pc = "done" /\ cases = <<>> => writes = 0

C11_Witness ==
    /\ pc = "done"
    /\ writes = 1
    /\ Len(jobs) = 2 /\ Finished(1) /\ Finished(2)

\* C12 as the spec states it: at the end of a run the documents directory
\* holds exactly one file per successfully downloaded job, and an abandoned
\* job leaves no file.
C12_OnlySuccessfulFiles ==
    pc = "done" =>
        /\ Cardinality(DOMAIN files) = Cardinality({j \in Indices : Succeeded(j)})
        /\ \A j \in 1..Len(jobs) : Exhausted(j) => NameOf(j) \notin DOMAIN files

\* C12 amended: every file of the documents directory written by the run
\* belongs to one attempted job, at most one file per job; a successful job
\* has its file, whole; an abandoned job has a file only if one of its
\* attempts failed after the file was opened, and that file holds a partial
\* body no metadata entry refers to.
C12_FilesOfAttemptedJobs ==
    /\ \A n \in DOMAIN files : \E j \in 1..Len(called) : getCalls[j] > 0 /\ n = NameOf(j)
    /\ Cardinality(DOMAIN files) <= Cardinality({j \in Indices : getCalls[j] > 0})
    /\ \A j \in 1..Len(jobs) :
          (Succeeded(j) \/ Exhausted(j)) =>
              LET n == NameOf(j)
                  doc == DocumentAt(jobs[j].url)
              IN /\ Succeeded(j) => n \in DOMAIN files /\ files[n] = doc
                 /\ Exhausted(j) /\ n \in DOMAIN files =>
                       /\ files[n] = Partial(doc)
                       /\ \A k \in 1..Len(metadata) : metadata[k].file_name # n

\* an abandoned job has left a partial file behind, a successful one its file
C12_Witness ==
    /\ pc = "done"
    /\ Len(jobs) = 2
    /\ Exhausted(1) /\ NameOf(1) \in DOMAIN files
    /\ Succeeded(2) /\ NameOf(2) \in DOMAIN files

\* C13: no exception propagates out of run().
C13_NoExceptionLeavesRun == pc # "raised"

\* C14: run() invokes download_file once per job, in ascending job order and
\* strictly sequentially: a job is attempted only after every earlier job
\* has succeeded or exhausted its 5 attempts, a finished job is not
\* attempted again, and once the loop is over each job was invoked once.
C14_OncePerJobInOrder ==
    /\ \A k \in 1..Len(called) : called[k] = k
    /\ Len(called) <= Len(jobs)
    /\ \A j \in Indices : getCalls[j] > 0 =>
          /\ j \in 1..Len(called)
          /\ \A i \in 1..(j - 1) : Finished(i)
    /\ \A j \in Indices : (getCalls[j] > 0 /\ j # index) => Finished(j)
    /\ \A j \in Indices : Finished(j) =>
          /\ ~(index = j /\ pc = "get")
          /\ getCalls[j] = Len(outcomes[j])
          /\ \A k \in 1..(Len(outcomes[j]) - 1) : outcomes[j][k] = "fail"
    /\ pc \in {"write", "done"} /\ cases # <<>> =>
          /\ Len(called) = Len(jobs)
          /\ \A j \in 1..Len(jobs) : Finished(j)

C14_Witness ==
    /\ pc = "get"
    /\ index = 2
    /\ Exhausted(1)
    /\ getCalls[2] = 3

\* C15: after the first successful attempt of a job, download_file appends
\* exactly one entry for it and returns at once; no further attempt is made
\* for the job, and self.metadata never holds two entries with one index.
C15_OneEntryThenReturn ==
    /\ \A j \in Indices : Cardinality(EntriesOf(metadata, j)) <= 1
    /\ \A j \in Indices : Succeeded(j) =>
          /\ Cardinality(EntriesOf(metadata, j)) = 1
          /\ ~(index = j /\ pc = "get")
          /\ outcomes[j][Len(outcomes[j])] = "ok"
          /\ \A k \in 1..(Len(outcomes[j]) - 1) : outcomes[j][k] = "fail"
          /\ getCalls[j] = Len(outcomes[j])

\* a success at the third attempt, and the run went on to the next job
C15_Witness ==
    /\ Len(outcomes[1]) = 3 /\ Succeeded(1)
    /\ index = 2 /\ pc = "get"
    /\ Len(metadata) = 1

\* C16: every local file a metadata entry refers to holds exactly the whole
\* body of the successful attempt, whatever earlier failed attempts wrote,
\* and file_size_bytes is the length of that body (7 for b"PDFDATA").
C16_ReferencedFilesAreWhole ==
    \A k \in 1..Len(metadata) :
        LET e == metadata[k]
        IN /\ e.file_name \in DOMAIN files
           /\ files[e.file_name] = DocumentAt(e.download_url)
           /\ e.file_size_bytes = Len(DocumentAt(e.download_url))
           /\ DocumentAt(e.download_url) = <<"P", "D", "F", "D", "A", "T", "A">>
                 => e.file_size_bytes = 7

\* the successful attempt came after one that left a partial file
C16_Witness ==
    /\ Len(metadata) = 2
    /\ metadata[2].file_size_bytes = 7
    /\ Len(outcomes[2]) >= 2
    /\ pc = "write"

\* C17: the local file name of job `index` is case_<index, 3 digits>.<ext>,
\* ext being the lowercased text after the last "." of the declared name,
\* "pdf" when the name has no extension; ext is never empty.
C17_ExtensionNeverEmpty ==
    pc = "get" =>
        /\ ext # <<>>
        /\ LocalName = <<"case_", "0", "0", Digit(index), ".">> \o ext
        /\ \A i \in 1..Len(ext) : ext[i] \notin {".", "P", "D", "F", "O", "C", "V"}

\* C18: run() terminates having made at most 5*N download attempts for its
\* N jobs, and it ends at the early exit or after reaching the metadata
\* write, nowhere else.
C18_EndsAtWriteOrEarlyExit ==
    /\ \A j \in Indices : getCalls[j] <= 5 /\ (getCalls[j] > 0 => j <= Len(jobs))
    /\ pc = "raised" => writes = 1

\* C19: within one run two distinct jobs never write to the same local path:
\* the names derived for different indices differ whatever the extensions,
\* and the file an entry refers to still holds its document after the
\* later jobs.
NameIndices == {1, 2, 9, 10, 11, 99, 100, 101, 999, 1000, 1001}
NameExtensions == {<<>>, <<"p", "d", "f">>, <<"d", "o", "c">>, <<"1">>}

C19_DistinctLocalPaths ==
    /\ pc = "start" =>
          \A i, j \in NameIndices : \A e1, e2 \in NameExtensions :
              i # j => LocalFilename(i, e1) # LocalFilename(j, e2)
    /\ \A i, j \in 1..Len(called) :
          (i # j /\ getCalls[i] > 0 /\ getCalls[j] > 0) => NameOf(i) # NameOf(j)
    /\ \A k, m \in 1..Len(metadata) :
          k # m => metadata[k].file_name # metadata[m].file_name
    /\ \A k \in 1..Len(metadata) :
          files[metadata[k].file_name] = DocumentAt(metadata[k].download_url)

\* two jobs built from the same record, each with its own file
C19_Witness ==
    /\ pc = "write"
    /\ Len(metadata) = 2
    /\ jobs[1] = jobs[2]
    /\ Cardinality(DOMAIN files) = 2

\* C20: when the search returns records but none has both PathForWeb and
\* FileName, run() makes no download attempt and still writes the metadata
\* file, as an empty array, whatever was there; a run that ends without
\* the write is one whose fetch was empty.
AllInvalid == cases # <<>> /\ ValidAt = {}

C20_EmptyArrayWritten ==
    /\ AllInvalid /\ pc # "fetched" =>
          /\ jobs = <<>>
          /\ called = <<>>
          /\ \A j \in Indices : getCalls[j] = 0
          /\ files = NoFiles
          /\ pc \in {"loop", "write", "done", "raised"}
    /\ AllInvalid /\ pc = "done" =>
          writes = 1 /\ metaFile = [kind |-> "written", entries |-> <<>>]
    /\ pc = "done" /\ writes = 0 => cases = <<>>

C20_Witness ==
    /\ pc = "done"
    /\ AllInvalid /\ Len(cases) = 2
    /\ metaFile = [kind |-> "written", entries |-> <<>>]

====
